---- MODULE Spec2Model ----
(***************************************************************************)
(* A state-machine model of lib/MqttClient.js (Valetudo 0.4.0): the MQTT   *)
(* bridge's connection handling, command dispatch, state publishing and    *)
(* the self-rescheduling attribute aggregation loop.                       *)
(*                                                                         *)
(* One action is one run-to-completion callback of the node event loop:    *)
(* a timer firing, an event handler, or the settlement of a promise.       *)
(* Everything written to the outside world by a callback (broker calls,    *)
(* device calls, orphanTimers, log lines, unhandled rejections) is recorded in   *)
(* the variable out, which holds the effects of the last callback only.    *)
(***************************************************************************)
EXTENDS Integers, Sequences, FiniteSets, Bags, TLC

(***************************************************************************)
(* Bounds of the model.                                                    *)
(***************************************************************************)
\* handles mqtt.connect() may create in one run
MaxClients == 2
\* outstanding work of the aggregation loop: cycles in flight, reschedule
\* timers pending and getCleanRecord calls in flight
MaxLoad == 2
\* command-dispatcher device calls awaiting settlement
MaxCalls == 2
\* subscribe requests awaiting their acknowledgment
MaxSubs == 1

(***************************************************************************)
(* Values.                                                                 *)
(***************************************************************************)
\* the JavaScript value undefined (also what a missing table key yields)
Undefined == "<undefined>"
\* a falsy result of getZoneCleaningStatus()
Null == "<null>"

MQTT_COMMANDS ==
    [START |-> "start", RETURN_TO_BASE |-> "return_to_base", STOP |-> "stop",
     CLEAN_SPOT |-> "clean_spot", LOCATE |-> "locate", PAUSE |-> "pause"]

CUSTOM_COMMANDS == [GO_TO |-> "go_to", ZONED_CLEANUP |-> "zoned_cleanup"]

FAN_SPEED_NAMES == <<"min", "medium", "high", "max", "mop">>

FAN_SPEEDS == [min |-> 38, medium |-> 60, high |-> 75, max |-> 100, mop |-> 105]

HA_STATES ==
    [CLEANING |-> "cleaning", PAUSED |-> "paused", IDLE |-> "idle",
     RETURNING |-> "returning", DOCKED |-> "docked", ERROR |-> "error",
     ZONE_CLEANUP |-> "cleaning"]

HA_STATE_MAPPINGS ==
    [CHARGER_DISCONNECTED |-> HA_STATES.IDLE,
     IDLE |-> HA_STATES.IDLE,
     CLEANING |-> HA_STATES.CLEANING,
     MANUAL_MODE |-> HA_STATES.CLEANING,
     SPOT_CLEANING |-> HA_STATES.CLEANING,
     GOING_TO_TARGET |-> HA_STATES.CLEANING,
     ZONED_CLEANING |-> HA_STATES.ZONE_CLEANUP,
     RETURNING_HOME |-> HA_STATES.RETURNING,
     DOCKING |-> HA_STATES.RETURNING,
     CHARGING |-> HA_STATES.DOCKED,
     CHARGING_PROBLEM |-> HA_STATES.ERROR,
     ERROR |-> HA_STATES.ERROR,
     PAUSED |-> HA_STATES.PAUSED]

\* a lookup that takes every known native state for a cleaning one
mapState_AllCleaning(state) ==
    IF state \in DOMAIN HA_STATE_MAPPINGS THEN HA_STATES.CLEANING ELSE Undefined

\* HA_STATE_MAPPINGS[state]: a plain property read, undefined for a missing key
mapState(state) ==
    IF state \in DOMAIN HA_STATE_MAPPINGS THEN HA_STATE_MAPPINGS[state] ELSE Undefined

\* FAN_SPEEDS[speed] for the keys of the table; -1 stands for no table entry
fanSpeedLookup(speed) ==
    IF speed \in DOMAIN FAN_SPEEDS THEN FAN_SPEEDS[speed] ELSE -1

(***************************************************************************)
(* Formatting: Number.prototype.toFixed(1) and JSON.stringify.             *)
(***************************************************************************)
\* (num / den).toFixed(1) for num >= 0, den > 0: one decimal, rounded half up
toFixed1(num, den) ==
    LET tenths == (20 * num + den) \div (2 * den)
    IN  ToString(tenths \div 10) \o "." \o ToString(tenths % 10)

\* Math.max(0, total - seconds / 60 / 60).toFixed(1)
remainingHours(total, seconds) ==
    LET left == total * 3600 - seconds
    IN  toFixed1(IF left > 0 THEN left ELSE 0, 3600)

jsonString(s) == IF s = Undefined THEN Undefined ELSE "\"" \o s \o "\""

jsonNumber(n) == ToString(n)

jsonBool(b) == IF b THEN "true" ELSE "false"

RECURSIVE jsonMembers(_, _)
\* the members of an object in insertion order; a member whose value is
\* undefined is left out, as JSON.stringify does
jsonMembers(obj, sep) ==
    IF obj = <<>> THEN ""
    ELSE IF obj[1][2] = Undefined THEN jsonMembers(Tail(obj), sep)
    ELSE sep \o "\"" \o obj[1][1] \o "\":" \o obj[1][2] \o jsonMembers(Tail(obj), ",")

\* JSON.stringify(obj): obj is a sequence of <<key, rendered value>> members
stringify(obj) == "{" \o jsonMembers(obj, "") \o "}"

\* the value of member key of obj, Undefined when obj has no such member
member(obj, key) ==
    IF \E i \in 1..Len(obj) : obj[i][1] = key
    THEN obj[CHOOSE i \in 1..Len(obj) : obj[i][1] = key][2]
    ELSE Undefined

\* Roborock.GET_ERROR_CODE_DESCRIPTION(code): a table outside this file
GET_ERROR_CODE_DESCRIPTION(code) == "error description " \o ToString(code)

\* one effect of a callback on the outside world
Effect(kind, name, arg) == [kind |-> kind, name |-> name, arg |-> arg]

(***************************************************************************)
(* Inputs: what the device, the configuration and the broker may deliver.  *)
(***************************************************************************)
\* results of vacuum.getConsumableStatus(), work times in seconds
ConsumableResults ==
    << [main_brush_work_time |-> 0, side_brush_work_time |-> 0,
        filter_work_time |-> 0, sensor_dirty_time |-> 0],
       [main_brush_work_time |-> 36000, side_brush_work_time |-> 720000,
        filter_work_time |-> 1800, sensor_dirty_time |-> 108000] >>

\* results of vacuum.getCleanSummary(): <<seconds, mm2, count, history ids>>;
\* the last one lacks the history list, so that reading its length throws
CleanSummaries ==
    { <<7200, 2000000, 3, <<>>, TRUE>>,
      <<7380, 2040000, 4, <<86400>>, TRUE>>,
      <<7380, 2040000, 4, <<>>, FALSE>> }

\* results of vacuum.getCleanRecord(id): data[0] =
\* <<start s, end s, duration s, area mm2, error code, finished flag>>
CleanRecords ==
    { <<86400, 86460, 60, 1500000, 0, 1>>,
      <<90000, 90030, 30, 440000, 5, 0>> }

\* results of vacuum.getZoneCleaningStatus(), already rendered as JSON
ZoneStatuses == {Null, "[\"Kitchen\"]"}

\* native states a status event may carry; UPDATING is not in the table
NativeStates == (DOMAIN HA_STATE_MAPPINGS) \cup {"UPDATING"}

(***************************************************************************)
(* State.                                                                  *)
(***************************************************************************)
VARIABLES
    client,                  \* this.client: 0 (undefined) or a handle
    conn,                    \* per handle: the mqtt client's own flags
    subs,                    \* subscribe requests awaiting their callback
    attributesUpdateTimeout, \* this.attributesUpdateTimeout: unset, pending, spent
    orphanTimers,            \* pending timers the field does not refer to
    last_ha_state,           \* this.last_ha_state
    last_state,              \* this.last_state
    last_attributes,         \* this.last_attributes (an object)
    last_run_stats,          \* this.last_run_stats (an object, <<>> = undefined)
    pending,                 \* device calls whose promise has not settled
    attrPublished,           \* the last payload published on attributes ("" = none)
    invocations,             \* invocations of updateAttributesTopic so far, modulo 2
    out                      \* effects of the last callback

vars == <<client, conn, subs, attributesUpdateTimeout, orphanTimers, last_ha_state,
          last_state, last_attributes, last_run_stats, pending, attrPublished,
          invocations, out>>

connVars == <<client, conn, subs>>
aggVars == <<attributesUpdateTimeout, orphanTimers, last_ha_state, last_state,
             last_attributes, last_run_stats, attrPublished, invocations>>

Handles == 1..MaxClients

\* a handle mqtt.connect() has not created yet
NoClient == [created |-> FALSE, connected |-> FALSE, reconnecting |-> FALSE,
             attempt |-> FALSE, ended |-> FALSE]

\* a handle as mqtt.connect() returns it: both flags false, attempt running
NewClient == [created |-> TRUE, connected |-> FALSE, reconnecting |-> FALSE,
              attempt |-> TRUE, ended |-> FALSE]

\* this.client && this.client.connected === true
Connected == client # 0 /\ conn[client].connected

\* a device call in flight: op the method, k the continuation attached,
\* res the index of the consumable result its continuation closes over
Call(op, k, res) == [op |-> op, k |-> k, res |-> res]

AddCall(bag, c) == bag (+) SetToBag({c})
DelCall(bag, c) == bag (-) SetToBag({c})

\* aggregation cycles in flight: started getConsumableStatus, not rescheduled
CyclesInFlight ==
    BagCardinality([c \in {d \in BagToSet(pending) :
                              d.op \in {"getConsumableStatus", "getCleanSummary"}}
                     |-> pending[c]])

\* dispatcher calls in flight
CommandCalls ==
    BagCardinality([c \in {d \in BagToSet(pending) : d.k \notin {"agg", "record"}}
                     |-> pending[c]])


(***************************************************************************)
(* Attribute aggregator: updateAttributesTopic and its promise chain.      *)
(* Besides the real effects, the callback that ends an invocation records  *)
(* Effect("cycle", outcome, payload), a marker used to state properties.   *)
(***************************************************************************)
\* Timers.  A Timeout object matters only through whether it is still pending
\* and whether this.attributesUpdateTimeout refers to it.  The field is "unset"
\* (undefined), "pending" (it refers to a pending timer) or "spent" (it refers
\* to a timer that fired or was cleared); orphanTimers counts the pending
\* timers the field no longer refers to.  tm is the pair [handle, orphans].

\* this.attributesUpdateTimeout = setTimeout(() => this.updateAttributesTopic(), ...)
scheduleNext(tm) ==
    [handle |-> "pending",
     orphans |-> IF tm.handle = "pending" THEN tm.orphans + 1 ELSE tm.orphans,
     eff |-> <<Effect("timer", "setTimeout", "")>>]

\* if (this.attributesUpdateTimeout) clearTimeout(this.attributesUpdateTimeout)
clearTimeout(tm) ==
    [handle |-> IF tm.handle = "pending" THEN "spent" ELSE tm.handle,
     orphans |-> tm.orphans]

\* updateAttributesTopic without the else branch of lines 285-289: nothing is
\* scheduled when there is no connection
updateAttributesTopic_NoElse(tm, pend) ==
    LET cleared == clearTimeout(tm)
    IN  IF Connected
        THEN [handle |-> cleared.handle, orphans |-> cleared.orphans,
              pending |-> AddCall(pend, Call("getConsumableStatus", "agg", 0)),
              eff |-> <<Effect("device", "getConsumableStatus", "")>>]
        ELSE [handle |-> cleared.handle, orphans |-> cleared.orphans, pending |-> pend,
              eff |-> <<Effect("cycle", "no_connection", "")>>]

\* updateAttributesTopic() without the test of line 226: it always fetches
updateAttributesTopic_NoConnectionTest(tm, pend) ==
    LET cleared == clearTimeout(tm)
    IN  [handle |-> cleared.handle, orphans |-> cleared.orphans,
         pending |-> AddCall(pend, Call("getConsumableStatus", "agg", 0)),
         eff |-> <<Effect("device", "getConsumableStatus", "")>>]

\* updateAttributesTopic() up to its first suspension, from timers tm and
\* calls in flight pend
updateAttributesTopic(tm, pend) ==
    LET cleared == clearTimeout(tm)
    IN  IF Connected
        THEN [handle |-> cleared.handle, orphans |-> cleared.orphans,
              pending |-> AddCall(pend, Call("getConsumableStatus", "agg", 0)),
              eff |-> <<Effect("device", "getConsumableStatus", "")>>]
        ELSE LET s == scheduleNext(cleared)
             IN  [handle |-> s.handle, orphans |-> s.orphans, pending |-> pend,
                  eff |-> <<Effect("cycle", "no_connection", "")>> \o s.eff]

\* the object assigned to this.last_run_stats from data[0] = d
lastRunStats(d) ==
    << <<"startTime", jsonNumber(d[1] * 1000)>>,
       <<"endTime", jsonNumber(d[2] * 1000)>>,
       <<"duration", jsonNumber(d[3])>>,
       <<"area", jsonString(toFixed1(d[4], 1000000))>>,
       <<"errorCode", jsonNumber(d[5])>>,
       <<"errorDescription", jsonString(GET_ERROR_CODE_DESCRIPTION(d[5]))>>,
       <<"finishedFlag", jsonBool(d[6] = 1)>> >>

\* the response object built from consumables res, summary res2, the cached
\* last run lrs (<<>> when unset), the retained states and the zone status z
attributesResponse(res, res2, lrs, haState, state, z) ==
    << <<"cleanTime", jsonString(toFixed1(res2[1], 3600))>>,
       <<"cleanArea", jsonString(toFixed1(res2[2], 1000000))>>,
       <<"cleanCount", jsonNumber(res2[3])>>,
       <<"last_run_stats", stringify(lrs)>>,
       <<"mainBrush", jsonString(remainingHours(300, res.main_brush_work_time))>>,
       <<"sideBrush", jsonString(remainingHours(200, res.side_brush_work_time))>>,
       <<"filter", jsonString(remainingHours(150, res.filter_work_time))>>,
       <<"sensor", jsonString(remainingHours(30, res.sensor_dirty_time))>>,
       <<"state", jsonString(haState)>>,
       <<"valetudo_state", jsonString(state)>> >>
    \o (IF z # Null THEN << <<"zoneStatus", z>> >> ELSE <<>>)

\* lines 263-266 without line 265: the published response is not stored
publishIfChanged_NotStored(response, last) ==
    IF stringify(response) # stringify(last)
    THEN [last |-> last,
          eff |-> <<Effect("publish", "attributes", stringify(response)),
                    Effect("cycle", "published", stringify(response))>>]
    ELSE [last |-> last,
          eff |-> <<Effect("cycle", "suppressed", stringify(response))>>]

\* lines 263-266: publish response unless it renders like last_attributes
publishIfChanged(response, last) ==
    IF stringify(response) # stringify(last)
    THEN [last |-> response,
          eff |-> <<Effect("publish", "attributes", stringify(response)),
                    Effect("cycle", "published", stringify(response))>>]
    ELSE [last |-> last,
          eff |-> <<Effect("cycle", "suppressed", stringify(response))>>]

\* the effects of eff that publish on the attributes topic
attributePublishes(eff) ==
    SelectSeq(eff, LAMBDA e : e.kind = "publish" /\ e.name = "attributes")

\* attrPublished after eff: the payload of the most recent publish
logAttributes(log, eff) ==
    LET pubs == attributePublishes(eff)
    IN  IF pubs = <<>> THEN log ELSE pubs[Len(pubs)].arg


(***************************************************************************)
(* Connection manager: connect(), the mqtt client's events, shutdown().    *)
(***************************************************************************)
\* the guard of line 153 without its test of client.reconnecting
shouldConnect_NoReconnectingTest(cl, cn) ==
    cl = 0 \/ (cl # 0 /\ cn[cl].connected = FALSE)

\* the guard of connect(), line 153
shouldConnect(cl, cn) ==
    cl = 0 \/ (cl # 0 /\ cn[cl].connected = FALSE /\ cn[cl].reconnecting = FALSE)

\* the handle the next mqtt.connect() returns
nextHandle(cn) == CHOOSE h \in Handles : ~cn[h].created /\ \A g \in 1..(h - 1) : cn[g].created

\* connect(): a new client with its three handlers, or nothing at all
connect ==
    /\ shouldConnect(client, conn) => \E h \in Handles : ~conn[h].created
    /\ IF shouldConnect(client, conn)
       THEN /\ client' = nextHandle(conn)
            /\ conn' = [conn EXCEPT ![nextHandle(conn)] = NewClient]
            /\ out' = <<Effect("enter", "connect", ""),
                        Effect("broker", "mqtt.connect", ToString(nextHandle(conn)))>>
       ELSE /\ UNCHANGED <<client, conn>>
            /\ out' = <<Effect("enter", "connect", "")>>
    /\ UNCHANGED <<subs, aggVars, pending>>

\* the three command topics, subscribed as one array
commandTopics == <<"command", "set_fan_speed", "custom_command">>

RECURSIVE joinTopics(_)
joinTopics(ts) ==
    IF ts = <<>> THEN ""
    ELSE IF Len(ts) = 1 THEN ts[1]
    ELSE ts[1] \o "," \o joinTopics(Tail(ts))

\* the "connect" handler, lines 160-176: one subscribe call on this.client
onConnect(cl) == <<Effect("broker", "subscribe", joinTopics(commandTopics))>>

\* the subscribe callback without its test of err
onSubscribed_ErrIgnored(err) ==
    <<Effect("publish", "homeassistant_autoconf_vacuum", "retain")>>

\* the subscribe callback, lines 166-175
onSubscribed(err) ==
    IF ~err
    THEN <<Effect("publish", "homeassistant_autoconf_vacuum", "retain")>>
    ELSE <<Effect("log", "error", "subscribe")>>

\* handle h receives CONNACK: the library sets its flags, then emits "connect"
ConnAck(h) ==
    /\ conn[h].attempt
    /\ BagCardinality(subs) < MaxSubs
    /\ conn' = [conn EXCEPT ![h].connected = TRUE, ![h].reconnecting = FALSE,
                            ![h].attempt = FALSE]
    /\ subs' = subs (+) SetToBag({client})
    /\ out' = <<Effect("event", "connect", ToString(h))>> \o onConnect(client)
    /\ UNCHANGED <<client, aggVars, pending>>

\* the callback of one subscribe call runs, with or without an error
SubAck(c, err) ==
    /\ BagIn(c, subs)
    /\ subs' = subs (-) SetToBag({c})
    /\ out' = <<Effect("event", IF err THEN "suback_error" ELSE "suback", ToString(c))>>
              \o onSubscribed(err)
    /\ UNCHANGED <<client, conn, aggVars, pending>>

\* the stream of handle h closes (a drop, or a failed attempt): the library
\* clears connected and, unless end() was called, starts reconnecting
ConnLost(h) ==
    /\ conn[h].created /\ ~conn[h].ended
    /\ conn[h].connected \/ conn[h].attempt
    /\ conn' = [conn EXCEPT ![h].connected = FALSE, ![h].reconnecting = TRUE,
                            ![h].attempt = TRUE]
    /\ out' = <<Effect("event", "close", ToString(h))>>
    /\ UNCHANGED <<client, subs, aggVars, pending>>

\* shutdown(): this.client.end(true, ...) closes the connection for good
shutdown ==
    /\ client # 0 /\ ~conn[client].ended
    /\ conn' = [conn EXCEPT ![client].connected = FALSE, ![client].attempt = FALSE,
                            ![client].ended = TRUE]
    /\ out' = <<Effect("enter", "shutdown", ""), Effect("broker", "end", ToString(client))>>
    /\ UNCHANGED <<client, subs, aggVars, pending>>


(***************************************************************************)
(* State publisher: updateStatusTopic.                                     *)
(***************************************************************************)
\* a reading the status event does not carry (undefined)
Absent == -1

\* Object.keys(FAN_SPEEDS).find(key => FAN_SPEEDS[key] === fan_power)
fanSpeedName(fan_power) ==
    IF \E i \in 1..Len(FAN_SPEED_NAMES) : FAN_SPEEDS[FAN_SPEED_NAMES[i]] = fan_power
    THEN LET first == CHOOSE i \in 1..Len(FAN_SPEED_NAMES) :
                          /\ FAN_SPEEDS[FAN_SPEED_NAMES[i]] = fan_power
                          /\ \A j \in 1..(i - 1) : FAN_SPEEDS[FAN_SPEED_NAMES[j]] # fan_power
         IN  FAN_SPEED_NAMES[first]
    ELSE Undefined

\* the state document of lines 301-308
statusResponse(sd) ==
    << <<"state", jsonString(mapState(sd.state))>>,
       <<"battery_level", jsonNumber(sd.battery)>>,
       <<"fan_speed", jsonString(fanSpeedName(sd.fan_power))>> >>
    \o (IF sd.error_code # Absent /\ sd.error_code # 0
        THEN << <<"error", jsonString(GET_ERROR_CODE_DESCRIPTION(sd.error_code))>> >>
        ELSE <<>>)

\* updateStatusTopic without its test of statusData.battery
updateStatusTopic_NoBatteryTest(sd) ==
    IF Connected
    THEN <<Effect("publish", "state", stringify(statusResponse(sd))),
           Effect("option", "retain", "true")>>
    ELSE <<>>

\* updateStatusTopic(statusData): the effects of lines 299-312, a publish
\* and the retain option it is made with
updateStatusTopic(sd) ==
    IF Connected /\ sd.battery # Absent
    THEN <<Effect("publish", "state", stringify(statusResponse(sd))),
           Effect("option", "retain", "true")>>
    ELSE <<>>

(***************************************************************************)
(* The callbacks of the aggregation loop.                                  *)
(***************************************************************************)
\* the timers of the loop now: the stored handle and the orphans
Timers == [handle |-> attributesUpdateTimeout, orphans |-> orphanTimers]

\* reschedule timers pending
PendingTimers == (IF attributesUpdateTimeout = "pending" THEN 1 ELSE 0) + orphanTimers

\* cycles in flight, timers pending and getCleanRecord calls in flight
Load == CyclesInFlight + PendingTimers
        + CopiesIn(Call("getCleanRecord", "record", 0), pending)

\* a reschedule timer fires, the stored one or an orphan: lines 268-270 and
\* the like
TimerFire(stored) ==
    /\ IF stored THEN attributesUpdateTimeout = "pending" ELSE orphanTimers > 0
    /\ LET fired == IF stored
                    THEN [handle |-> "spent", orphans |-> orphanTimers]
                    ELSE [handle |-> attributesUpdateTimeout, orphans |-> orphanTimers - 1]
           r == updateAttributesTopic(fired, pending)
       IN  /\ orphanTimers' = r.orphans
           /\ attributesUpdateTimeout' = r.handle
           /\ pending' = r.pending
           /\ out' = <<Effect("event", "timer", "")>> \o r.eff
    /\ invocations' = (invocations + 1) % 2
    /\ UNCHANGED <<connVars, last_ha_state, last_state, last_attributes,
                   last_run_stats, attrPublished>>

\* the "miio.status" handler, lines 146-149 and 214-219
StatusEvent(sd) ==
    /\ attributesUpdateTimeout = "pending" \/ Load < MaxLoad
    /\ last_ha_state' = mapState(sd.state)
    /\ last_state' = sd.state
    /\ LET r == updateAttributesTopic(Timers, pending)
       IN  /\ orphanTimers' = r.orphans
           /\ attributesUpdateTimeout' = r.handle
           /\ pending' = r.pending
           /\ out' = <<Effect("event", "miio.status", sd.state)>>
                     \o updateStatusTopic(sd) \o r.eff
    /\ invocations' = (invocations + 1) % 2
    /\ UNCHANGED <<connVars, last_attributes, last_run_stats, attrPublished>>

\* getConsumableStatus() resolves with ConsumableResults[r]: lines 228-231
ConsumableResolved(r) ==
    /\ BagIn(Call("getConsumableStatus", "agg", 0), pending)
    /\ pending' = AddCall(DelCall(pending, Call("getConsumableStatus", "agg", 0)),
                          Call("getCleanSummary", "agg", r))
    /\ out' = <<Effect("settle", "getConsumableStatus", "resolved"),
                Effect("device", "getCleanSummary", "")>>
    /\ UNCHANGED <<connVars, aggVars>>

\* getConsumableStatus() rejects: lines 279-284
ConsumableRejected ==
    /\ BagIn(Call("getConsumableStatus", "agg", 0), pending)
    /\ pending' = DelCall(pending, Call("getConsumableStatus", "agg", 0))
    /\ LET s == scheduleNext(Timers)
       IN  /\ orphanTimers' = s.orphans
           /\ attributesUpdateTimeout' = s.handle
           /\ out' = <<Effect("settle", "getConsumableStatus", "rejected"),
                       Effect("log", "error", "getConsumableStatus"),
                       Effect("cycle", "consumable_failed", "")>> \o s.eff
    /\ UNCHANGED <<connVars, last_ha_state, last_state, last_attributes,
                   last_run_stats, attrPublished, invocations>>

\* lines 272-277 without the setTimeout of lines 274-276
summaryCatch_NoReschedule(outcome) ==
    [orphans |-> orphanTimers, handle |-> attributesUpdateTimeout,
     eff |-> <<Effect("log", "error", "getCleanSummary"),
               Effect("cycle", outcome, "")>>]

\* lines 272-277 publishing the response built so far, which is empty
summaryCatch_PublishesPartial(outcome) ==
    LET s == scheduleNext(Timers)
    IN  [orphans |-> s.orphans, handle |-> s.handle,
         eff |-> <<Effect("log", "error", "getCleanSummary"),
                   Effect("publish", "attributes", "{}"),
                   Effect("cycle", outcome, "")>> \o s.eff]

\* getCleanSummary() rejects, or its then-callback throws: lines 272-277
summaryCatch(outcome) ==
    LET s == scheduleNext(Timers)
    IN  [orphans |-> s.orphans, handle |-> s.handle,
         eff |-> <<Effect("log", "error", "getCleanSummary"),
                   Effect("cycle", outcome, "")>> \o s.eff]

SummaryRejected(r) ==
    /\ BagIn(Call("getCleanSummary", "agg", r), pending)
    /\ pending' = DelCall(pending, Call("getCleanSummary", "agg", r))
    /\ LET c == summaryCatch("summary_failed")
       IN  /\ orphanTimers' = c.orphans
           /\ attributesUpdateTimeout' = c.handle
           /\ out' = <<Effect("settle", "getCleanSummary", "rejected")>> \o c.eff
    /\ UNCHANGED <<connVars, last_ha_state, last_state, last_attributes,
                   last_run_stats, attrPublished, invocations>>

\* lines 233-270 for a well-formed summary res2 and zone status z
summaryThen(r, res2, z) ==
    LET fetch == Len(res2[4]) > 0
        response == attributesResponse(ConsumableResults[r], res2, last_run_stats,
                                       last_ha_state, last_state, z)
        p == publishIfChanged(response, last_attributes)
        s == scheduleNext(Timers)
    IN  [orphans |-> s.orphans, handle |-> s.handle, last |-> p.last, fetch |-> fetch,
         eff |-> (IF fetch
                  THEN <<Effect("device", "getCleanRecord", ToString(res2[4][1]))>>
                  ELSE <<>>) \o p.eff \o s.eff]

\* getCleanSummary() resolves with res2: lines 232-271
SummaryResolved(r, res2, z) ==
    /\ BagIn(Call("getCleanSummary", "agg", r), pending)
    /\ (res2[5] /\ Len(res2[4]) > 0) =>
           Load < MaxLoad
    /\ IF res2[5]
       THEN LET t == summaryThen(r, res2, z)
            IN  /\ pending' = IF t.fetch
                              THEN AddCall(DelCall(pending, Call("getCleanSummary", "agg", r)),
                                           Call("getCleanRecord", "record", 0))
                              ELSE DelCall(pending, Call("getCleanSummary", "agg", r))
                /\ orphanTimers' = t.orphans
                /\ attributesUpdateTimeout' = t.handle
                /\ last_attributes' = t.last
                /\ attrPublished' = logAttributes(attrPublished, t.eff)
                /\ out' = <<Effect("settle", "getCleanSummary", "resolved")>> \o t.eff
       ELSE LET c == summaryCatch("summary_threw")
            IN  /\ pending' = DelCall(pending, Call("getCleanSummary", "agg", r))
                /\ orphanTimers' = c.orphans
                /\ attributesUpdateTimeout' = c.handle
                /\ out' = <<Effect("settle", "getCleanSummary", "resolved")>> \o c.eff
                /\ UNCHANGED <<last_attributes, attrPublished>>
    /\ UNCHANGED <<connVars, last_ha_state, last_state, last_run_stats, invocations>>

\* getCleanRecord() resolves with data[0] = d: lines 239-248
RecordResolved(d) ==
    /\ BagIn(Call("getCleanRecord", "record", 0), pending)
    /\ pending' = DelCall(pending, Call("getCleanRecord", "record", 0))
    /\ last_run_stats' = lastRunStats(d)
    /\ out' = <<Effect("settle", "getCleanRecord", "resolved")>>
    /\ UNCHANGED <<connVars, attributesUpdateTimeout, orphanTimers, last_ha_state,
                   last_state, last_attributes, attrPublished, invocations>>

\* a catch of line 249 that forgets the cached record
recordCatch_ClearsCache(lrs) == <<>>

\* this.last_run_stats after .catch(err => Logger.error(err)), line 249
recordCatch(lrs) == lrs

\* getCleanRecord() rejects: line 249
RecordRejected ==
    /\ BagIn(Call("getCleanRecord", "record", 0), pending)
    /\ pending' = DelCall(pending, Call("getCleanRecord", "record", 0))
    /\ last_run_stats' = recordCatch(last_run_stats)
    /\ out' = <<Effect("settle", "getCleanRecord", "rejected"),
                Effect("log", "error", "getCleanRecord")>>
    /\ UNCHANGED <<connVars, attributesUpdateTimeout, orphanTimers, last_ha_state,
                   last_state, last_attributes, attrPublished, invocations>>


(***************************************************************************)
(* Command dispatcher: handleCommand, handleFanSpeedRequest and            *)
(* handleCustomCommand, and the settlement of the calls they issue.        *)
(* A handler yields the calls it starts and its effects.  The continuation *)
(* k of a call is "none" (the promise is dropped), "start" (lines 328-337),*)
(* "driveHome" (line 344) or "catch" (lines 394-396).                      *)
(***************************************************************************)
Nothing == [calls |-> <<>>, eff |-> <<>>]

\* this.vacuum.op(arg), with continuation k attached to the promise
Issue(op, k, arg) ==
    [calls |-> <<Call(op, k, 0)>>, eff |-> <<Effect("device", op, arg)>>]

Log(level, text) == [calls |-> <<>>, eff |-> <<Effect("log", level, text)>>]

\* handleCommand with a default branch that locates the robot
handleCommand_DefaultLocate(command) ==
    CASE command = MQTT_COMMANDS.START -> Issue("getCurrentStatus", "start", "")
      [] command = MQTT_COMMANDS.STOP -> Issue("stopCleaning", "none", "")
      [] command = MQTT_COMMANDS.RETURN_TO_BASE -> Issue("stopCleaning", "driveHome", "")
      [] command = MQTT_COMMANDS.CLEAN_SPOT -> Issue("spotClean", "none", "")
      [] command = MQTT_COMMANDS.PAUSE -> Issue("pauseCleaning", "none", "")
      [] OTHER -> Issue("findRobot", "none", "")

\* handleCommand(command), lines 324-358
handleCommand(command) ==
    CASE command = MQTT_COMMANDS.START -> Issue("getCurrentStatus", "start", "")
      [] command = MQTT_COMMANDS.STOP -> Issue("stopCleaning", "none", "")
      [] command = MQTT_COMMANDS.RETURN_TO_BASE -> Issue("stopCleaning", "driveHome", "")
      [] command = MQTT_COMMANDS.CLEAN_SPOT -> Issue("spotClean", "none", "")
      [] command = MQTT_COMMANDS.LOCATE -> Issue("findRobot", "none", "")
      [] command = MQTT_COMMANDS.PAUSE -> Issue("pauseCleaning", "none", "")
      [] OTHER -> Nothing

\* the fulfilment callback of getCurrentStatus(), lines 328-334
onStatusFetched_InCleaningOnly(res) ==
    IF res.in_cleaning = 2
    THEN Issue("resumeCleaningZone", "none", "")
    ELSE Issue("startCleaning", "none", "")

onStatusFetched(res) ==
    IF res.in_cleaning = 2 /\ mapState(res.state) = HA_STATES.PAUSED
    THEN Issue("resumeCleaningZone", "none", "")
    ELSE Issue("startCleaning", "none", "")

\* stopCleaning().then(() => driveHome()) with the callback run on rejection
\* too, as .finally would
onStopSettled_Always(ok) == Issue("driveHome", "none", "")

\* the promise of line 344 settles: then() has a fulfilment callback only, so
\* a rejection passes to the promise then() returned, which nobody handles
onStopSettled(ok) ==
    IF ok THEN Issue("driveHome", "none", "")
    ELSE [calls |-> <<>>, eff |-> <<Effect("unhandled", "rejection", "stopCleaning")>>]

\* FAN_SPEEDS is an object literal, so FAN_SPEEDS[speed] is a property read
\* along its prototype chain: for a name that is no key of the table but a
\* member of Object.prototype the read yields that inherited member
ObjectPrototypeMembers ==
    {"constructor", "toString", "toLocaleString", "valueOf", "hasOwnProperty",
     "isPrototypeOf", "propertyIsEnumerable", "__proto__"}

\* the argument setFanSpeed is called with: FAN_SPEEDS[speed], line 318
fanSpeedArgument(speed) ==
    IF fanSpeedLookup(speed) # -1 THEN jsonNumber(fanSpeedLookup(speed))
    ELSE IF speed \in ObjectPrototypeMembers THEN "<Object.prototype." \o speed \o ">"
    ELSE Undefined

\* handleFanSpeedRequest(speed), lines 317-319
handleFanSpeedRequest(speed) == Issue("setFanSpeed", "none", fanSpeedArgument(speed))

\* Zone references and the zone table.  A reference is a JSON string or a
\* JSON number; a zone has a string name and a number id.
StrRef(s) == [t |-> "string", s |-> s, n |-> 0]
NumRef(n) == [t |-> "number", s |-> "", n |-> n]

\* configuration.getZones().values(), in the order of the Map
ZoneTable == << [name |-> "Kitchen", id |-> 3], [name |-> "Garage", id |-> 7] >>

\* configuration.get("spots"): <<name, x, y>> entries
SpotTable == << <<"Sofa", 25500, 26500>>, <<"Door", 24000, 21000>> >>

\* zones.includes(x) for a string x / a number x: SameValueZero, no coercion
includesString(zones, x) == \E i \in 1..Len(zones) : zones[i].t = "string" /\ zones[i].s = x
includesNumber(zones, x) == \E i \in 1..Len(zones) : zones[i].t = "number" /\ zones[i].n = x

RECURSIVE jsonNumbers(_)
jsonNumbers(ns) ==
    IF ns = <<>> THEN ""
    ELSE IF Len(ns) = 1 THEN jsonNumber(ns[1])
    ELSE jsonNumber(ns[1]) \o "," \o jsonNumbers(Tail(ns))

\* the filter of lines 390-392 matching on the zone name only
zoneMatches_NameOnly(zones, zone) == includesString(zones, zone.name)

\* zones.includes(zone.name) || zones.includes(zone.id), lines 391-392
zoneMatches(zones, zone) ==
    includesString(zones, zone.name) \/ includesNumber(zones, zone.id)

\* lines 390-393: the ids of the configured zones the references match
resolveZones(zones) ==
    LET hit == SelectSeq(ZoneTable, LAMBDA zone : zoneMatches(zones, zone))
    IN  [i \in 1..Len(hit) |-> hit[i].id]

\* spots.find taking the first entry whatever its name
findSpot_AnyName(spot_id) == 1

\* spots.find(e => Array.isArray(e) && e[0] === msg.spot_id), line 411: the
\* index of the first entry of that name, 0 for undefined
findSpot(spot_id) ==
    IF \E i \in 1..Len(SpotTable) : SpotTable[i][1] = spot_id
    THEN CHOOSE i \in 1..Len(SpotTable) :
            /\ SpotTable[i][1] = spot_id
            /\ \A j \in 1..(i - 1) : SpotTable[j][1] # spot_id
    ELSE 0

\* a request that is skipped when no reference resolved
startZones_SkipsEmpty(zone_ids) ==
    IF zone_ids = <<>> THEN Log("info", "no zone resolved")
    ELSE Issue("startCleaningZonesById", "catch", "[" \o jsonNumbers(zone_ids) \o "]")

\* this.vacuum.startCleaningZonesById(zone_ids).catch(...), lines 394-396
startZones(zone_ids) ==
    Issue("startCleaningZonesById", "catch", "[" \o jsonNumbers(zone_ids) \o "]")

\* An inbound custom command is given by its text and by what JSON.parse
\* makes of it: parse is "error" (a SyntaxError), "scalar" (null, a number,
\* a string: no command member) or "object"; the members that are absent
\* are Undefined, and zone_ids is an array only when zonesIsArray.
CustomMessage(text, parse, command, zonesIsArray, zone_ids, spot_id) ==
    [text |-> text, parse |-> parse, command |-> command,
     zonesIsArray |-> zonesIsArray, zone_ids |-> zone_ids, spot_id |-> spot_id]

\* handleCustomCommand(message), lines 366-426
handleCustomCommand(msg) ==
    IF msg.parse = "error" THEN Log("error", "JSON.parse")
    ELSE IF msg.parse # "object" \/ msg.command \in {Undefined, ""} THEN Nothing
    ELSE IF msg.command = CUSTOM_COMMANDS.ZONED_CLEANUP
    THEN IF msg.zonesIsArray /\ Len(msg.zone_ids) > 0
         THEN startZones(resolveZones(msg.zone_ids))
         ELSE Log("info", "Missing zone_ids or empty array")
    ELSE IF msg.command = CUSTOM_COMMANDS.GO_TO
    THEN IF msg.spot_id \notin {Undefined, ""}
         THEN IF findSpot(msg.spot_id) # 0
              THEN LET spot_coords == SpotTable[findSpot(msg.spot_id)]
                   IN  Issue("goTo", "none",
                             jsonNumber(spot_coords[2]) \o "," \o jsonNumber(spot_coords[3]))
              ELSE Log("info", "Invalid spot_id")
         ELSE Log("info", "Missing spot_id")
    ELSE Log("info", "Received invalid custom command")

\* the calls a handler or continuation started join the calls in flight
RECURSIVE AddCalls(_, _)
AddCalls(bag, cs) ==
    IF cs = <<>> THEN bag ELSE AddCalls(AddCall(bag, cs[1]), Tail(cs))

\* the "message" handler of handle h, lines 178-191, for the three topics.
\* The broker delivers to a connected handle only.
Deliver(h, topic, text, r) ==
    /\ conn[h].connected
    /\ CommandCalls + Len(r.calls) <= MaxCalls
    /\ pending' = AddCalls(pending, r.calls)
    /\ out' = <<Effect("message", topic, text)>> \o r.eff
    /\ UNCHANGED <<connVars, aggVars>>

CommandMessage(h, command) ==
    Deliver(h, "command", command, handleCommand(command))

FanSpeedMessage(h, speed) ==
    Deliver(h, "set_fan_speed", speed, handleFanSpeedRequest(speed))

CustomCommandMessage(h, msg) ==
    Deliver(h, "custom_command", msg.text, handleCustomCommand(msg))

\* what the continuation k of a dispatcher call does when the call settles
continuation(c, ok) ==
    CASE c.k = "driveHome" -> onStopSettled(ok)
      [] c.k = "start" /\ ~ok -> Log("error", c.op)
      [] c.k = "catch" /\ ~ok -> Log("error", c.op)
      [] c.k = "none" /\ ~ok ->
            [calls |-> <<>>, eff |-> <<Effect("unhandled", "rejection", c.op)>>]
      [] OTHER -> Nothing

\* getCurrentStatus() of the start command resolves with res
StatusFetched(res) ==
    LET c == Call("getCurrentStatus", "start", 0)
        r == onStatusFetched(res)
    IN  /\ BagIn(c, pending)
        /\ pending' = AddCalls(DelCall(pending, c), r.calls)
        /\ out' = <<Effect("settle", c.op, "resolved"),
                    Effect("value", "in_cleaning", jsonNumber(res.in_cleaning)),
                    Effect("value", "state", res.state)>> \o r.eff
        /\ UNCHANGED <<connVars, aggVars>>

\* any other settlement of a dispatcher call
CallSettled(c, ok) ==
    LET r == continuation(c, ok)
    IN  /\ BagIn(c, pending)
        /\ c.k \notin {"agg", "record"}
        /\ ~(c.k = "start" /\ ok)
        /\ pending' = AddCalls(DelCall(pending, c), r.calls)
        /\ out' = <<Effect("settle", c.op, IF ok THEN "resolved" ELSE "rejected")>>
                  \o r.eff
        /\ UNCHANGED <<connVars, aggVars>>

(***************************************************************************)
(* Initial state: the state the constructor leaves, lines 131-137.         *)
(* connect() has created the first handle and updateAttributesTopic() has  *)
(* found it not connected yet and set the first timer.                     *)
(***************************************************************************)
Init ==
    /\ client = 1
    /\ conn = [h \in Handles |-> IF h = 1 THEN NewClient ELSE NoClient]
    /\ subs = EmptyBag
    /\ last_ha_state = HA_STATES.IDLE
    /\ last_state = "UNKNOWN"
    /\ last_attributes = <<>>
    /\ last_run_stats = <<>>
    /\ attrPublished = ""
    /\ invocations = 0
    /\ LET r == updateAttributesTopic([handle |-> "unset", orphans |-> 0], EmptyBag)
       IN  /\ orphanTimers = r.orphans
           /\ attributesUpdateTimeout = r.handle
           /\ pending = r.pending
           /\ out = <<Effect("enter", "constructor", "")>> \o r.eff

(***************************************************************************)
(* SpecAgg: the control of the aggregation loop under status events,       *)
(* timers, device-call settlements, connection loss and shutdown; the      *)
(* device data is kept to one consumable result, one record, one state.    *)
(***************************************************************************)
AggStatusInputs ==
    { [state |-> "CLEANING", battery |-> 80, fan_power |-> 60, error_code |-> 0] }

AggRecords == { d \in CleanRecords : d[5] = 0 }

NextAgg ==
    \/ \E sd \in AggStatusInputs : StatusEvent(sd)
    \/ \E stored \in BOOLEAN : TimerFire(stored)
    \/ ConsumableResolved(1)
    \/ ConsumableRejected
    \/ \E res2 \in CleanSummaries : SummaryResolved(1, res2, Null)
    \/ SummaryRejected(1)
    \/ \E d \in AggRecords : RecordResolved(d)
    \/ RecordRejected
    \/ \E h \in Handles : ConnAck(h)
    \/ \E c \in Handles, err \in BOOLEAN : SubAck(c, err)
    \/ \E h \in Handles : ConnLost(h)
    \/ shutdown

SpecAgg == Init /\ [][NextAgg]_vars


\* LiveAgg: SpecAgg with the fairness of its environment: a pending timer
\* fires and a device call of the loop settles.  Settlement is stated through
\* the rejecting callbacks, which are enabled exactly while such a call is in
\* flight: a behaviour in which the call settles any other way either disables
\* them or starts new cycles for ever.
AggTimer == \E stored \in BOOLEAN : TimerFire(stored)

LiveAgg ==
    /\ SpecAgg
    /\ WF_vars(AggTimer)
    /\ WF_vars(ConsumableRejected)
    /\ WF_vars(SummaryRejected(1))

(***************************************************************************)
(* SpecConn: connect() called at any time, against the connection events.  *)
(***************************************************************************)
NextConn ==
    \/ connect
    \/ \E h \in Handles : ConnAck(h)
    \/ \E c \in Handles, err \in BOOLEAN : SubAck(c, err)
    \/ \E h \in Handles : ConnLost(h)
    \/ shutdown
    \/ \E stored \in BOOLEAN : TimerFire(stored)

SpecConn == Init /\ [][NextConn]_vars

(***************************************************************************)
(* SpecCmd: inbound messages on the three command topics and the           *)
(* settlement of the device calls they start.                              *)
(***************************************************************************)
Commands ==
    {MQTT_COMMANDS.START, MQTT_COMMANDS.STOP, MQTT_COMMANDS.RETURN_TO_BASE,
     MQTT_COMMANDS.CLEAN_SPOT, MQTT_COMMANDS.LOCATE, MQTT_COMMANDS.PAUSE, "dance"}

FanSpeedInputs == {"min", "medium", "high", "max", "mop", "turbo", "constructor"}

ZonedCleanup(text, refs) ==
    CustomMessage(text, "object", CUSTOM_COMMANDS.ZONED_CLEANUP, TRUE, refs, Undefined)

CustomMessages ==
    { ZonedCleanup("{\"command\":\"zoned_cleanup\",\"zone_ids\":[\"Kitchen\",\"7\"]}",
                   <<StrRef("Kitchen"), StrRef("7")>>),
      ZonedCleanup("{\"command\":\"zoned_cleanup\",\"zone_ids\":[\"Kitchen\",7]}",
                   <<StrRef("Kitchen"), NumRef(7)>>),
      ZonedCleanup("{\"command\":\"zoned_cleanup\",\"zone_ids\":[7,\"Kitchen\",3]}",
                   <<NumRef(7), StrRef("Kitchen"), NumRef(3)>>),
      ZonedCleanup("{\"command\":\"zoned_cleanup\",\"zone_ids\":[\"Balcony\"]}",
                   <<StrRef("Balcony")>>),
      ZonedCleanup("{\"command\":\"zoned_cleanup\",\"zone_ids\":[]}", <<>>),
      CustomMessage("{\"command\":\"zoned_cleanup\",\"zone_ids\":\"Kitchen\"}",
                    "object", CUSTOM_COMMANDS.ZONED_CLEANUP, FALSE, <<>>, Undefined),
      CustomMessage("{\"command\":\"zoned_cleanup\"}",
                    "object", CUSTOM_COMMANDS.ZONED_CLEANUP, FALSE, <<>>, Undefined),
      CustomMessage("{\"command\":\"go_to\",\"spot_id\":\"Door\"}",
                    "object", CUSTOM_COMMANDS.GO_TO, FALSE, <<>>, "Door"),
      CustomMessage("{\"command\":\"go_to\",\"spot_id\":\"Attic\"}",
                    "object", CUSTOM_COMMANDS.GO_TO, FALSE, <<>>, "Attic"),
      CustomMessage("{\"command\":\"go_to\"}",
                    "object", CUSTOM_COMMANDS.GO_TO, FALSE, <<>>, Undefined),
      CustomMessage("{\"command\":\"dance\"}", "object", "dance", FALSE, <<>>, Undefined),
      CustomMessage("{\"zone_ids\":[7]}", "object", Undefined, TRUE, <<NumRef(7)>>, Undefined),
      CustomMessage("null", "scalar", Undefined, FALSE, <<>>, Undefined),
      CustomMessage("{command:", "error", Undefined, FALSE, <<>>, Undefined) }

StatusResults ==
    { [in_cleaning |-> i, state |-> s] : i \in {0, 2}, s \in {"PAUSED", "CLEANING", "UPDATING"} }

NextCmd ==
    \/ \E h \in Handles, command \in Commands : CommandMessage(h, command)
    \/ \E h \in Handles, speed \in FanSpeedInputs : FanSpeedMessage(h, speed)
    \/ \E h \in Handles, msg \in CustomMessages : CustomCommandMessage(h, msg)
    \/ \E res \in StatusResults : StatusFetched(res)
    \/ \E c \in BagToSet(pending), ok \in BOOLEAN : CallSettled(c, ok)
    \/ \E h \in Handles : ConnAck(h)
    \/ \E c \in Handles, err \in BOOLEAN : SubAck(c, err)
    \/ \E h \in Handles : ConnLost(h)

SpecCmd == Init /\ [][NextCmd]_vars

(***************************************************************************)
(* SpecStatus: status events of every native state, with and without       *)
(* battery, fan and error readings, against connection events; of the      *)
(* aggregation loop only the cycles that end at their first fetch.         *)
(***************************************************************************)
StatusInputs ==
    { [state |-> s, battery |-> 80, fan_power |-> 60, error_code |-> 0] : s \in NativeStates }
    \cup { [state |-> "CLEANING", battery |-> b, fan_power |-> f, error_code |-> e] :
              b \in {Absent, 80}, f \in {Absent, 60, 77}, e \in {Absent, 0, 5} }

NextStatus ==
    \/ \E sd \in StatusInputs : StatusEvent(sd)
    \/ \E stored \in BOOLEAN : TimerFire(stored)
    \/ ConsumableRejected
    \/ \E h \in Handles : ConnAck(h)
    \/ \E c \in Handles, err \in BOOLEAN : SubAck(c, err)
    \/ \E h \in Handles : ConnLost(h)

SpecStatus == Init /\ [][NextStatus]_vars

(***************************************************************************)
(* SpecSnap: status events against complete cycles of the aggregation      *)
(* loop, for the states an attributes snapshot carries.                    *)
(***************************************************************************)
\* a native state for each standardized state, two that share one, and one
\* the table does not hold
SnapStates ==
    {"IDLE", "CLEANING", "ZONED_CLEANING", "PAUSED", "RETURNING_HOME", "CHARGING",
     "ERROR", "UPDATING"}

SnapStatusInputs ==
    { [state |-> s, battery |-> 80, fan_power |-> 60, error_code |-> 0] : s \in SnapStates }

SnapSummaries == { s \in CleanSummaries : s[5] /\ s[4] = <<>> }

NextSnap ==
    \/ \E sd \in SnapStatusInputs : StatusEvent(sd)
    \/ \E stored \in BOOLEAN : TimerFire(stored)
    \/ ConsumableResolved(1)
    \/ \E res2 \in SnapSummaries : SummaryResolved(1, res2, Null)
    \/ \E h \in Handles : ConnAck(h)
    \/ \E c \in Handles, err \in BOOLEAN : SubAck(c, err)
    \/ \E h \in Handles : ConnLost(h)

SpecSnap == Init /\ [][NextSnap]_vars

(***************************************************************************)
(* Properties.                                                             *)
(***************************************************************************)
\* the effects of the last callback of the given kind and name
Effects(kind, name) == SelectSeq(out, LAMBDA e : e.kind = kind /\ e.name = name)

\* the markers of an invocation of updateAttributesTopic that ended
CycleEnds == SelectSeq(out, LAMBDA e : e.kind = "cycle")

\* C1: under any interleaving of timer invocations, status events and device-call
\* completions there is never more than one aggregation cycle in flight.
C1_AtMostOneCycleInFlight == CyclesInFlight <= 1

\* C2: every invocation of updateAttributesTopic schedules its next run exactly
\* once, whatever its outcome (published, suppressed, a failed or throwing
\* fetch step, no connection): the callback that ends an invocation calls
\* setTimeout once and leaves the stored handle pending; a callback that ends
\* no invocation (such as the settlement of getCleanRecord) calls it not at all.
C2_ReschedulesExactlyOnce ==
    /\ Len(CycleEnds) <= 1
    /\ Len(Effects("timer", "setTimeout")) = Len(CycleEnds)
    /\ Len(CycleEnds) = 1 => attributesUpdateTimeout = "pending"

\* C2 witness: a cycle whose publish was suppressed has rescheduled itself
C2_Witness ==
    /\ Len(CycleEnds) = 1 /\ CycleEnds[1].name = "suppressed"
    /\ Len(Effects("timer", "setTimeout")) = 1

\* C3: the aggregation loop never stops: always a cycle is in flight or a
\* reschedule timer is pending, and (timers fire, device calls settle)
\* updateAttributesTopic is invoked again and again, also while disconnected
\* and after shutdown().
C3_LoopNeverStops ==
    /\ [](CyclesInFlight > 0 \/ PendingTimers > 0)
    /\ []<>(invocations = 0) /\ []<>(invocations = 1)

\* C3 witness: after shutdown() a timer fired and the loop rescheduled itself
C3_Witness ==
    /\ conn[client].ended
    /\ Len(Effects("event", "timer")) = 1
    /\ Len(CycleEnds) = 1 /\ CycleEnds[1].name = "no_connection"
    /\ attributesUpdateTimeout = "pending"

\* C4: a snapshot equal to the last-published one is not published again: a
\* publish on the attributes topic never carries the payload of the previous
\* publish, after it last_attributes renders as the payload just published,
\* and an assembled snapshot is published exactly when it differs from the
\* stored one.
C4_NoRepeatedSnapshot ==
    [][LET pubs == attributePublishes(out')
           built == SelectSeq(out', LAMBDA e : e.kind = "cycle"
                                               /\ e.name \in {"published", "suppressed"})
       IN  /\ Len(pubs) <= 1
           /\ \A i \in 1..Len(pubs) :
                  /\ pubs[i].arg # attrPublished
                  /\ attrPublished' = pubs[i].arg
                  /\ stringify(last_attributes') = pubs[i].arg
           /\ \A i \in 1..Len(built) :
                  (built[i].arg # stringify(last_attributes))
                      <=> (Len(pubs) = 1 /\ pubs[1].arg = built[i].arg)]_vars

\* C4 witness: a cycle assembled the snapshot published before and kept quiet
C4_Witness ==
    /\ attrPublished # ""
    /\ Len(CycleEnds) = 1 /\ CycleEnds[1].name = "suppressed"
    /\ CycleEnds[1].arg = attrPublished
    /\ Effects("publish", "attributes") = <<>>


\* connection attempts in flight, over all the handles created
AttemptsInFlight == Cardinality({h \in Handles : conn[h].attempt})

\* C5: after a connection drop, connect() called while the existing handle is
\* reconnecting (connected false, reconnecting true) starts no new attempt:
\* no client is created, this.client and every handle stay as they are.
C5_NoConnectWhileReconnecting ==
    [][(/\ out'[1] = Effect("enter", "connect", "")
        /\ client # 0
        /\ conn[client].connected = FALSE
        /\ conn[client].reconnecting = TRUE)
       => (/\ client' = client
           /\ conn' = conn
           /\ out' = <<Effect("enter", "connect", "")>>)]_vars

\* C5 witness: connect() has returned while the handle was reconnecting
C5_Witness ==
    /\ out = <<Effect("enter", "connect", "")>>
    /\ conn[client].connected = FALSE /\ conn[client].reconnecting = TRUE
    /\ conn[client].attempt

\* C6: for any sequence of connect() calls and connection events, two
\* connection attempts are never in flight at the same time, also not during
\* the initial connecting phase before the first "connect" event.
C6_OneAttemptInFlight == AttemptsInFlight <= 1

\* C7: on each "connect" event the three command topics are subscribed in one
\* batch; the discovery descriptor is published retained exactly once, by the
\* callback of that subscribe and only when it reports no error; on an error
\* nothing is published and nothing is retried.
C7_DescriptorAfterSubscribe ==
    LET descriptors == Effects("publish", "homeassistant_autoconf_vacuum")
        subscribes == Effects("broker", "subscribe")
    IN  /\ Effects("event", "connect") # <<>> =>
               /\ subscribes = <<Effect("broker", "subscribe",
                                        "command,set_fan_speed,custom_command")>>
               /\ descriptors = <<>>
               /\ BagCardinality(subs) >= 1
        /\ Effects("event", "suback") # <<>> =>
               /\ descriptors = <<Effect("publish", "homeassistant_autoconf_vacuum", "retain")>>
               /\ subscribes = <<>>
        /\ Effects("event", "suback_error") # <<>> =>
               /\ descriptors = <<>>
               /\ subscribes = <<>>
               /\ Effects("timer", "setTimeout") = <<>>
               /\ Effects("broker", "mqtt.connect") = <<>>
        /\ descriptors # <<>> => Effects("event", "suback") # <<>>
        /\ subscribes # <<>> => Effects("event", "connect") # <<>>

\* C7 witness: a subscribe was acknowledged and the descriptor went out
C7_Witness ==
    /\ Effects("event", "suback") # <<>>
    /\ Len(Effects("publish", "homeassistant_autoconf_vacuum")) = 1


\* the device calls the last callback issued, in order
DeviceCalls == SelectSeq(out, LAMBDA e : e.kind = "device")

\* C8: for the command "return_to_base", stopCleaning is issued first and alone;
\* driveHome is issued only by the callback that runs when stopCleaning has
\* resolved, and the callback of a rejected stopCleaning issues nothing.
C8_DriveHomeOnlyAfterStopResolved ==
    /\ out[1] = Effect("message", "command", MQTT_COMMANDS.RETURN_TO_BASE)
          => /\ DeviceCalls = <<Effect("device", "stopCleaning", "")>>
             /\ BagIn(Call("stopCleaning", "driveHome", 0), pending)
    /\ Effects("device", "driveHome") # <<>>
          => /\ out[1] = Effect("settle", "stopCleaning", "resolved")
             /\ DeviceCalls = <<Effect("device", "driveHome", "")>>
    /\ out[1] = Effect("settle", "stopCleaning", "rejected") => DeviceCalls = <<>>

\* stopCleaning of a return_to_base has resolved and driveHome was issued
C8_Witness ==
    /\ out[1] = Effect("settle", "stopCleaning", "resolved")
    /\ DeviceCalls = <<Effect("device", "driveHome", "")>>
    /\ BagIn(Call("driveHome", "none", 0), pending)

\* C9: for the command "start" the status is fetched first and nothing else is
\* called; when the fetch resolves with in_cleaning = 2 and a native state that
\* maps to "paused", exactly one resumeCleaningZone and no startCleaning is
\* issued; for every other status exactly one startCleaning and no
\* resumeCleaningZone; when the fetch rejects neither is issued, and neither is
\* ever issued by any other callback.
C9_StartResumesOnlyPausedZone ==
    /\ out[1] = Effect("message", "command", MQTT_COMMANDS.START)
          => DeviceCalls = <<Effect("device", "getCurrentStatus", "")>>
    /\ out[1] = Effect("settle", "getCurrentStatus", "resolved")
          => LET in_cleaning == Effects("value", "in_cleaning")[1].arg
                 state == Effects("value", "state")[1].arg
             IN  IF in_cleaning = "2" /\ state \in DOMAIN HA_STATE_MAPPINGS
                    /\ HA_STATE_MAPPINGS[state] = "paused"
                 THEN DeviceCalls = <<Effect("device", "resumeCleaningZone", "")>>
                 ELSE DeviceCalls = <<Effect("device", "startCleaning", "")>>
    /\ out[1] = Effect("settle", "getCurrentStatus", "rejected") => DeviceCalls = <<>>
    /\ Effects("device", "resumeCleaningZone") \o Effects("device", "startCleaning") # <<>>
          => out[1] = Effect("settle", "getCurrentStatus", "resolved")

\* the fetch resolved with a paused zone cleanup and the resume was issued
C9_Witness ==
    /\ out[1] = Effect("settle", "getCurrentStatus", "resolved")
    /\ Effects("value", "in_cleaning")[1].arg = "2"
    /\ Effects("value", "state")[1].arg = "PAUSED"
    /\ DeviceCalls = <<Effect("device", "resumeCleaningZone", "")>>

\* the identifiers, in table order from zone i on, of the zones that a string
\* reference names or a number reference identifies
RECURSIVE ReferencedFrom(_, _)
ReferencedFrom(i, refs) ==
    IF i > Len(ZoneTable) THEN <<>>
    ELSE (IF \E j \in 1..Len(refs) :
                \/ refs[j].t = "string" /\ refs[j].s = ZoneTable[i].name
                \/ refs[j].t = "number" /\ refs[j].n = ZoneTable[i].id
          THEN <<ZoneTable[i].id>> ELSE <<>>) \o ReferencedFrom(i + 1, refs)

\* the one cleaning request the last callback issued is for these identifiers
ZoneRequestIs(ids) ==
    /\ DeviceCalls = <<Effect("device", "startCleaningZonesById", ids)>>
    /\ BagIn(Call("startCleaningZonesById", "catch", 0), pending)

KitchenAndStringSeven == "{\"command\":\"zoned_cleanup\",\"zone_ids\":[\"Kitchen\",\"7\"]}"
KitchenAndNumberSeven == "{\"command\":\"zoned_cleanup\",\"zone_ids\":[\"Kitchen\",7]}"

\* C10 as stated: the references ["Kitchen","7"] against the zones
\* {name Kitchen, id 3} and {name Garage, id 7} yield a request for [3,7].
C10_StringSevenSelectsGarage ==
    out[1] = Effect("message", "custom_command", KitchenAndStringSeven)
        => ZoneRequestIs("[3,7]")

\* C10, amended: for a zoned_cleanup command with a non-empty reference list
\* the device receives one cleaning request whose identifiers are, in table
\* order, those of the configured zones whose name is equal to a string
\* reference or whose numeric identifier is equal to a number reference, with
\* no conversion between the two; ["Kitchen",7] yields [3,7] and
\* ["Kitchen","7"] yields [3].
C10_ZonesMatchedByNameOrNumber ==
    /\ \A msg \in CustomMessages :
          ( /\ out[1] = Effect("message", "custom_command", msg.text)
            /\ msg.parse = "object" /\ msg.command = "zoned_cleanup"
            /\ msg.zonesIsArray /\ msg.zone_ids # <<>> )
          => ZoneRequestIs("[" \o jsonNumbers(ReferencedFrom(1, msg.zone_ids)) \o "]")
    /\ out[1] = Effect("message", "custom_command", KitchenAndNumberSeven)
          => ZoneRequestIs("[3,7]")
    /\ out[1] = Effect("message", "custom_command", KitchenAndStringSeven)
          => ZoneRequestIs("[3]")

\* the references ["Kitchen",7] arrived and the request for [3,7] was issued
C10_Witness ==
    /\ out[1] = Effect("message", "custom_command", KitchenAndNumberSeven)
    /\ ZoneRequestIs("[3,7]")


GoToDoor == "{\"command\":\"go_to\",\"spot_id\":\"Door\"}"
GoToAttic == "{\"command\":\"go_to\",\"spot_id\":\"Attic\"}"

\* C11: for a go_to command whose spot reference is the name of a configured
\* spot exactly one goTo call is issued, with that spot's x and y; when no
\* configured spot has that name, or the reference is missing, no device call
\* is issued and an informational log is written.
C11_GoToOnlyConfiguredSpot ==
    /\ \A msg \in CustomMessages :
          ( /\ out[1] = Effect("message", "custom_command", msg.text)
            /\ msg.parse = "object" /\ msg.command = "go_to" )
          => IF \E i \in 1..Len(SpotTable) : SpotTable[i][1] = msg.spot_id
             THEN \E i \in 1..Len(SpotTable) :
                     /\ SpotTable[i][1] = msg.spot_id
                     /\ DeviceCalls = <<Effect("device", "goTo",
                                               ToString(SpotTable[i][2]) \o ","
                                                   \o ToString(SpotTable[i][3]))>>
             ELSE /\ DeviceCalls = <<>>
                  /\ Len(Effects("log", "info")) = 1
    /\ out[1] = Effect("message", "custom_command", GoToDoor)
          => DeviceCalls = <<Effect("device", "goTo", "24000,21000")>>
    /\ out[1] = Effect("message", "custom_command", GoToAttic) => DeviceCalls = <<>>

\* a go_to for an unknown spot arrived while a goTo for a known one is in flight
C11_Witness ==
    /\ out[1] = Effect("message", "custom_command", GoToAttic)
    /\ Effects("log", "info") = <<Effect("log", "info", "Invalid spot_id")>>
    /\ BagIn(Call("goTo", "none", 0), pending)


\* the publishes on the state topic among the effects eff
StatePublishes(eff) == SelectSeq(eff, LAMBDA e : e.kind = "publish" /\ e.name = "state")

\* the retain options among the effects eff
RetainOptions(eff) == SelectSeq(eff, LAMBDA e : e.kind = "option" /\ e.name = "retain")

\* C12 as stated: a status event without a battery reading publishes nothing on
\* the state topic, and every status event with a battery reading publishes
\* exactly one retained document there.
C12_EveryBatteryEventPublishes ==
    [][\A sd \in StatusInputs :
          StatusEvent(sd) =>
              IF sd.battery = Absent
              THEN StatePublishes(out') = <<>>
              ELSE /\ Len(StatePublishes(out')) = 1
                   /\ RetainOptions(out') = <<Effect("option", "retain", "true")>>]_vars

\* C12, amended: a status event publishes on the state topic exactly when the
\* broker connection is established and the event carries a battery reading;
\* it then publishes exactly one retained document, whatever was published
\* before (no comparison with the previous document), and otherwise nothing.
C12_PublishesWhenConnectedWithBattery ==
    [][\A sd \in StatusInputs :
          StatusEvent(sd) =>
              /\ IF client # 0 /\ conn[client].connected /\ sd.battery # Absent
                 THEN /\ Len(StatePublishes(out')) = 1
                      /\ RetainOptions(out') = <<Effect("option", "retain", "true")>>
                 ELSE StatePublishes(out') = <<>> /\ RetainOptions(out') = <<>>
              /\ ( /\ client # 0 /\ conn[client].connected
                   /\ sd = [state |-> "CLEANING", battery |-> 80, fan_power |-> 60,
                            error_code |-> 0] )
                 => StatePublishes(out') =
                       <<Effect("publish", "state",
                                "{\"state\":\"cleaning\",\"battery_level\":80,\"fan_speed\":\"medium\"}")>>]_vars

\* a status event was published while connected
C12_Witness ==
    /\ Connected
    /\ out[1] = Effect("event", "miio.status", "CLEANING")
    /\ Len(StatePublishes(out)) = 1
    /\ RetainOptions(out) # <<>>


\* C13: every rejection of a device call the command dispatcher issued is
\* caught and logged; none is left as an unhandled rejection.
C13_EveryRejectionLogged ==
    (out[1].kind = "settle" /\ out[1].arg = "rejected")
        => /\ Effects("log", "error") = <<Effect("log", "error", out[1].name)>>
           /\ Effects("unhandled", "rejection") = <<>>


\* the six standardized states
StandardizedStates == {"cleaning", "paused", "idle", "returning", "docked", "error"}

\* the table entry of a native state, Undefined when it has none
TableEntry(s) == IF s \in DOMAIN HA_STATE_MAPPINGS THEN HA_STATE_MAPPINGS[s] ELSE Undefined

\* the snapshots of a cycle without last-run record and zone status that
\* carry the standardized state ha and the native state s
SnapshotsWith(ha, s) ==
    { stringify(attributesResponse(ConsumableResults[1], res2, <<>>, ha, s, Null)) :
        res2 \in SnapSummaries }

\* the snapshot the last callback assembled, if it assembled one
AssembledSnapshots ==
    SelectSeq(out, LAMBDA e : e.kind = "cycle" /\ e.name \in {"published", "suppressed"})

\* the table maps each of its native states to one standardized state, and
\* after a status event the retained states are those of that event
MappingRetained ==
    /\ \A s \in DOMAIN HA_STATE_MAPPINGS : mapState(s) \in StandardizedStates
    /\ mapState("ZONED_CLEANING") = "cleaning" /\ mapState("DOCKING") = "returning"
    /\ (out[1].kind = "event" /\ out[1].name = "miio.status")
          => last_state = out[1].arg /\ last_ha_state = TableEntry(out[1].arg)
    /\ last_state # "UNKNOWN" => last_ha_state = TableEntry(last_state)

\* C14 as stated: the mapping yields one of the six standardized states for
\* every table state, the retained state is the mapping of the most recent
\* event's native state, and in every assembled attributes snapshot "state" is
\* the mapping of "valetudo_state".
C14_SnapshotStateIsMapped ==
    /\ MappingRetained
    /\ \A i \in 1..Len(AssembledSnapshots) :
          \E s \in SnapStates \cup {"UNKNOWN"} :
              AssembledSnapshots[i].arg \in SnapshotsWith(TableEntry(s), s)

\* C14, amended: as stated for the mapping and the retained state; in every
\* attributes snapshot assembled after a status event "state" is the mapping
\* of "valetudo_state" (absent for a native state outside the table), and a
\* snapshot assembled before the first status event carries the state "idle"
\* with the valetudo_state "UNKNOWN".
C14_SnapshotStateIsMappedAfterEvent ==
    /\ MappingRetained
    /\ \A i \in 1..Len(AssembledSnapshots) :
          IF last_state = "UNKNOWN"
          THEN AssembledSnapshots[i].arg \in SnapshotsWith("idle", "UNKNOWN")
          ELSE AssembledSnapshots[i].arg \in SnapshotsWith(TableEntry(last_state), last_state)

\* a snapshot assembled after a PAUSED status event
C14_Witness ==
    /\ last_state = "PAUSED"
    /\ Len(AssembledSnapshots) = 1
    /\ AssembledSnapshots[1].arg \in SnapshotsWith("paused", "PAUSED")


\* C15: the steps of a cycle are chained: the snapshot is assembled, compared
\* and published only after the getCleanRecord of that cycle has settled, so
\* the callback that starts the detail fetch assembles no snapshot and none is
\* assembled while the fetch is in flight.
C15_SnapshotAfterRecordSettled ==
    /\ Effects("device", "getCleanRecord") # <<>> => AssembledSnapshots = <<>>
    /\ AssembledSnapshots # <<>> => ~BagIn(Call("getCleanRecord", "record", 0), pending)


\* the callback that ran is the rejection callback of one of the two fetches
FetchFailed(eff) ==
    eff[1] \in {Effect("settle", "getConsumableStatus", "rejected"),
                Effect("settle", "getCleanSummary", "rejected")}

\* C16: when getConsumableStatus or getCleanSummary fails, the cycle publishes
\* nothing on the attributes topic, starts no further fetch and ends; the
\* stored last-published snapshot and the cached last-run record stay as they
\* were.
C16_FailedFetchPublishesNothing ==
    [][FetchFailed(out') =>
          /\ SelectSeq(out', LAMBDA e : e.kind \in {"publish", "device"}) = <<>>
          /\ Len(SelectSeq(out', LAMBDA e : e.kind = "log" /\ e.name = "error")) = 1
          /\ CyclesInFlight' = CyclesInFlight - 1
          /\ last_attributes' = last_attributes
          /\ last_run_stats' = last_run_stats
          /\ attrPublished' = attrPublished]_vars

\* the summary fetch failed in a cycle that follows a published snapshot and
\* a fetched run record
C16_Witness ==
    /\ out[1] = Effect("settle", "getCleanSummary", "rejected")
    /\ last_attributes # <<>>
    /\ last_run_stats # <<>>


\* the snapshots a cycle can assemble around the last-run record lrs
SnapshotsAround(lrs) ==
    { stringify(attributesResponse(ConsumableResults[1], res2, lrs, last_ha_state,
                                   last_state, Null)) : res2 \in CleanSummaries }

\* C17: a failed getCleanRecord ends no cycle and leaves the cached last-run
\* record as it was; the cache, once filled, is never emptied, and every
\* snapshot assembled while it is filled carries the cached record.
C17_CachedRecordSurvivesFailure ==
    [][/\ out'[1] = Effect("settle", "getCleanRecord", "rejected")
          => /\ last_run_stats' = last_run_stats
             /\ CyclesInFlight' = CyclesInFlight
             /\ PendingTimers' = PendingTimers
             /\ SelectSeq(out', LAMBDA e : e.kind = "cycle") = <<>>
       /\ last_run_stats # <<>> => last_run_stats' # <<>>
       /\ (last_run_stats # <<>> /\ AssembledSnapshots' # <<>>)
          => /\ AssembledSnapshots'[1].arg \in SnapshotsAround(last_run_stats)
             /\ AssembledSnapshots'[1].arg \notin SnapshotsAround(<<>>)]_vars

\* a detail fetch failed after an earlier one had filled the cache
C17_Witness ==
    /\ out[1] = Effect("settle", "getCleanRecord", "rejected")
    /\ last_run_stats # <<>>


\* the callback that ran invoked updateAttributesTopic: a timer or a status event
CycleStarted(eff) ==
    eff[1].kind = "event" /\ eff[1].name \in {"timer", "miio.status"}

\* C18: an invocation of updateAttributesTopic while the connection is not
\* established issues no fetch (no device call at all) and no publish, leaves
\* the calls in flight as they are and sets exactly one timer for the next run.
C18_NoFetchWithoutConnection ==
    [][(CycleStarted(out') /\ ~(client # 0 /\ conn[client].connected))
          => /\ SelectSeq(out', LAMBDA e : e.kind \in {"device", "publish"}) = <<>>
             /\ pending' = pending
             /\ Len(SelectSeq(out', LAMBDA e : e.kind = "timer" /\ e.name = "setTimeout")) = 1
             /\ attributesUpdateTimeout' = "pending"]_vars

\* the timer fired after the connection was lost, and only rescheduled
C18_Witness ==
    /\ out[1] = Effect("event", "timer", "")
    /\ client # 0 /\ ~conn[client].connected /\ conn[client].reconnecting
    /\ DeviceCalls = <<>>
    /\ attributesUpdateTimeout = "pending"


\* the verbs of the command topic
KnownVerbs == {"start", "stop", "return_to_base", "clean_spot", "locate", "pause"}

\* the custom commands that are malformed or not recognized: no parse, no
\* command member, an unknown command, a zoned_cleanup without zones
UnrecognizedCustom ==
    { msg \in CustomMessages :
        \/ msg.parse # "object"
        \/ msg.command \notin {"zoned_cleanup", "go_to"}
        \/ msg.command = "zoned_cleanup" /\ (~msg.zonesIsArray \/ msg.zone_ids = <<>>) }

\* the message the last callback of eff handled is unrecognized or malformed
Unrecognized(eff) ==
    \/ eff[1].kind = "message" /\ eff[1].name = "command" /\ eff[1].arg \notin KnownVerbs
    \/ \E msg \in UnrecognizedCustom : eff[1] = Effect("message", "custom_command", msg.text)

\* C19: a command whose verb is not one of the six, a custom command that does
\* not parse, has no command member or names an unknown command, and a
\* zoned_cleanup with an empty or absent zone list each issue no device call
\* and change nothing of the bridge's state.
C19_UnrecognizedMessagesDoNothing ==
    [][Unrecognized(out') =>
          /\ SelectSeq(out', LAMBDA e : e.kind \in {"device", "publish", "broker"}) = <<>>
          /\ pending' = pending
          /\ UNCHANGED <<connVars, aggVars>>]_vars

\* a payload that does not parse arrived while a device call was in flight
C19_Witness ==
    /\ out = <<Effect("message", "custom_command", "{command:"),
               Effect("log", "error", "JSON.parse")>>
    /\ pending # EmptyBag


\* C20: every fan-speed request issues exactly one setFanSpeed call, with the
\* table's level for a name of the table and with undefined for any other
\* name; and the reverse lookup of the state document takes the level of
\* every table name back to that name.
C20_UnknownSpeedPassesUndefined ==
    /\ (out[1].kind = "message" /\ out[1].name = "set_fan_speed")
          => DeviceCalls =
                <<Effect("device", "setFanSpeed",
                         CASE out[1].arg = "min" -> "38"
                           [] out[1].arg = "medium" -> "60"
                           [] out[1].arg = "high" -> "75"
                           [] out[1].arg = "max" -> "100"
                           [] out[1].arg = "mop" -> "105"
                           [] OTHER -> Undefined)>>
    /\ \A i \in 1..Len(FAN_SPEED_NAMES) :
          fanSpeedName(FAN_SPEEDS[FAN_SPEED_NAMES[i]]) = FAN_SPEED_NAMES[i]


\* C21: at most one reschedule timer of the aggregation loop is pending at any
\* time, under any interleaving of status events, timer firings and
\* device-call completions.
C21_AtMostOneTimerPending == PendingTimers <= 1


OnlyBalcony == "{\"command\":\"zoned_cleanup\",\"zone_ids\":[\"Balcony\"]}"

\* the zoned_cleanup commands that carry a non-empty reference list
ZonedWithReferences ==
    { msg \in CustomMessages :
        /\ msg.parse = "object" /\ msg.command = "zoned_cleanup"
        /\ msg.zonesIsArray /\ Len(msg.zone_ids) > 0 }

\* C22: a zoned_cleanup command with a non-empty reference list issues exactly
\* one startCleaningZonesById call and no other device call, whether or not a
\* reference resolves; when none resolves the call is made with the empty list.
C22_OneZoneRequestEvenIfNoneResolves ==
    /\ \A msg \in ZonedWithReferences :
          out[1] = Effect("message", "custom_command", msg.text)
          => /\ Len(DeviceCalls) = 1
             /\ Len(Effects("device", "startCleaningZonesById")) = 1
    /\ out[1] = Effect("message", "custom_command", OnlyBalcony)
          => DeviceCalls = <<Effect("device", "startCleaningZonesById", "[]")>>

\* the references resolved to no zone and the request went out with no identifier
C22_Witness ==
    /\ out[1] = Effect("message", "custom_command", OnlyBalcony)
    /\ DeviceCalls = <<Effect("device", "startCleaningZonesById", "[]")>>
    /\ BagIn(Call("startCleaningZonesById", "catch", 0), pending)
====
